---- MODULE Spec2Model ----
(***************************************************************************)
(* Model of the av1qsvd transcoding daemon (cmd/av1d/main.go), its job     *)
(* store (internal/jobs/jobs.go), the executor (internal/daemon:           *)
(* ProcessJob, AtomicReplaceFile, CheckSizeGate) and the dashboard's job   *)
(* refresh (internal/tui/model.go).                                        *)
(*                                                                         *)
(* The daemon is one sequential process; pc is its position in main().     *)
(* The file system (job records, library files, sidecars, temporary        *)
(* outputs) survives a kill of the process, the heap (mem, existingJobs,   *)
(* newJobs, pendingJobs) does not.                                         *)
(***************************************************************************)
EXTENDS Integers, Sequences, FiniteSets, TLC

\* ------------------------------------------------------------------ bounds
\* size of the pool of job identifiers uuid.New() draws from
MaxJobs == 3
\* number of times the daemon process is started
MaxRuns == 2
\* number of times the operator replaces a library file between runs
MaxUserEdits == 1
\* number of failures of the environment in one behaviour: a kill of the
\* daemon, or a store write, a probe, a stat or a rename that returns an error
MaxFaults == 1

\* ------------------------------------------------- configuration (scaled)
\* cfg.MinBytes, scaled from 2 GiB to 5 units
MinBytes == 5
\* cfg.MaxSizeRatio = 0.90 as the fraction RatioNum / RatioDen
RatioNum == 9
RatioDen == 10

\* ---------------------------------------------------------------- library
\* Two media files. filepath.Ext and strings.TrimSuffix(path, ext) are
\* tabulated: TLA+ has no string operations.
FileA == "lib/sub/m.mkv"
FileB == "lib/n.mp4"
\* A second library, lib2: two media files with the same name up to the
\* extension, one of them with an upper-case extension, and a text file.
FileC == "lib2/m.MKV"
FileD == "lib2/m.mp4"
FileN == "lib2/m.nfo"
Paths == {FileA, FileB, FileC, FileD, FileN}

\* filepath.Ext(path)
Ext(p) ==
    IF p = FileA THEN ".mkv" ELSE IF p = FileC THEN ".MKV"
    ELSE IF p = FileN THEN ".nfo" ELSE ".mp4"
\* strings.TrimSuffix(path, filepath.Ext(path))
TrimExt(p) ==
    IF p = FileA THEN "lib/sub/m" ELSE IF p = FileB THEN "lib/n" ELSE "lib2/m"
Bases == {TrimExt(p) : p \in Paths}

\* the configured lists of library roots that the model draws cfg.LibraryRoots from
RootLists == { <<"lib">>, <<"lib", "lib/sub">>, <<"lib/sub">>, <<"lib2">> }

\* filepath.Walk(root): the media files below root, in lexical order
WalkRoot(root) ==
    IF root = "lib" THEN <<FileB, FileA>>
    ELSE IF root = "lib2" THEN <<FileC, FileD, FileN>> ELSE <<FileA>>

RECURSIVE WalkAll(_)
WalkAll(roots) ==
    IF roots = <<>> THEN <<>> ELSE WalkRoot(Head(roots)) \o WalkAll(Tail(roots))

\* what a library file can hold: a non-AV1 video, an AV1 video, no video stream
Kinds == {"h264", "av1", "audio"}
\* sizes the encoder can produce
OutSizes == {9, 10}

NoFile == [exists |-> FALSE]
MkFile(data, kind, size) == [exists |-> TRUE, data |-> data, kind |-> kind, size |-> size]

\* the libraries the model starts from: FileA is a large non-AV1 video, FileB
\* is a large non-AV1 video, a video at the size floor, or an AV1 video
Libraries ==
    { [p \in Paths |-> IF p = FileB THEN b
                       ELSE IF p = FileN THEN MkFile("orig", "audio", 10)
                       ELSE MkFile("orig", "h264", 10)] :
        b \in { MkFile("orig", "h264", 10), MkFile("orig", "h264", MinBytes),
                 MkFile("orig", "av1", 10) } }

\* the library the model starts from when the root is lib2: FileC and FileD
\* are large non-AV1 videos
TwinLibraries ==
    { [p \in Paths |-> IF p = FileN THEN MkFile("orig", "audio", 10)
                       ELSE MkFile("orig", "h264", 10)] }

\* ------------------------------------------------------------------- jobs
JobIds == 1..MaxJobs

Pending == "pending"
Running == "running"
Success == "success"
Failed == "failed"
Skipped == "skipped"
Terminal == {Success, Failed, Skipped}

\* jobs.NewJob
NewJob(id, sourcePath) ==
    [id |-> id, path |-> sourcePath, status |-> Pending, reason |-> "",
     started |-> FALSE, finished |-> FALSE, orig |-> 0, new |-> 0]

\* ----------------------------------------------------- record encoding
\* json.MarshalIndent(job): a sequence of tokens, one per emitted key,
\* omitempty keys left out when empty, between an opening and a closing brace.
Tok(k, s, n) == [k |-> k, s |-> s, n |-> n]

Marshal(j) ==
    <<Tok("{", "", 0), Tok("id", "", j.id), Tok("source_path", j.path, 0)>>
    \o (IF j.started THEN <<Tok("started_at", "t", 0)>> ELSE <<>>)
    \o (IF j.finished THEN <<Tok("finished_at", "t", 0)>> ELSE <<>>)
    \o <<Tok("status", j.status, 0)>>
    \o (IF j.reason # "" THEN <<Tok("reason", j.reason, 0)>> ELSE <<>>)
    \o (IF j.orig # 0 THEN <<Tok("original_bytes", "", j.orig)>> ELSE <<>>)
    \o (IF j.new # 0 THEN <<Tok("new_bytes", "", j.new)>> ELSE <<>>)
    \o <<Tok("}", "", 0)>>

HasKey(data, k) == \E i \in 1..Len(data) : data[i].k = k
Field(data, k) == data[CHOOSE i \in 1..Len(data) : data[i].k = k]

\* json.Unmarshal succeeds only on a complete object
WellFormed(data) ==
    /\ Len(data) >= 2
    /\ data[1].k = "{"
    /\ data[Len(data)].k = "}"

\* json.Unmarshal(data, &job): absent keys keep their zero value
Unmarshal(data) ==
    [id |-> IF HasKey(data, "id") THEN Field(data, "id").n ELSE 0,
     path |-> IF HasKey(data, "source_path") THEN Field(data, "source_path").s ELSE "",
     status |-> IF HasKey(data, "status") THEN Field(data, "status").s ELSE "",
     reason |-> IF HasKey(data, "reason") THEN Field(data, "reason").s ELSE "",
     started |-> HasKey(data, "started_at"),
     finished |-> HasKey(data, "finished_at"),
     orig |-> IF HasKey(data, "original_bytes") THEN Field(data, "original_bytes").n ELSE 0,
     new |-> IF HasKey(data, "new_bytes") THEN Field(data, "new_bytes").n ELSE 0]

\* a job file that does not exist
NoRec == <<Tok("absent", "", 0)>>

\* LoadAllJobs: the job files in directory order (os.ReadDir sorts by name),
\* files that do not parse are skipped
RECURSIVE LoadFrom(_, _)
LoadFrom(d, i) ==
    IF i > MaxJobs THEN <<>>
    ELSE (IF d[i] # NoRec /\ WellFormed(d[i]) THEN <<Unmarshal(d[i])>> ELSE <<>>)
         \o LoadFrom(d, i + 1)

LoadAllJobs(d) == LoadFrom(d, 1)

\* variant of FindJobBySourcePath that finds no job
FindJobNever(js, heap, sourcePath) == 0

\* jobs.FindJobBySourcePath over a slice of job pointers: index of the first
\* job with that source path, 0 for nil
FindJobBySourcePath(js, heap, sourcePath) ==
    IF \E i \in 1..Len(js) : heap[js[i]].path = sourcePath
    THEN js[CHOOSE i \in 1..Len(js) :
                /\ heap[js[i]].path = sourcePath
                /\ \A k \in 1..(i - 1) : heap[js[k]].path # sourcePath]
    ELSE 0

\* ------------------------------------------------------------------ probe
\* a stream of ffprobe's output: codec_type, codec_name, disposition.default
Stream(type, codec, default) == [type |-> type, codec |-> codec, default |-> default]
NoStream == Stream("", "", 0)

\* the video streams of a stream list, in order
VideoStreams(streams) == SelectSeq(streams, LAMBDA st : st.type = "video")

\* metadata.ProbeFile after ffprobe's JSON is parsed: HasVideo, HasAV1 and the
\* main video stream (VideoStream)
ProbeStreams(streams) ==
    LET vs == VideoStreams(streams) IN
    [hasVideo |-> vs # <<>>,
     hasAV1 |-> \E k \in 1..Len(vs) : vs[k].codec = "av1",
     main |-> IF vs = <<>> THEN NoStream
              ELSE IF \E k \in 1..Len(vs) : vs[k].default = 1
              THEN vs[CHOOSE k \in 1..Len(vs) :
                         /\ vs[k].default = 1
                         /\ \A j \in 1..(k - 1) : vs[j].default # 1]
              ELSE vs[1]]

\* the scanner's already-AV1 test on a probe result
AlreadyAV1(pr) == pr.hasAV1

\* the streams of the library files of the model, by kind
StreamsOf(kind) ==
    IF kind = "audio" THEN <<Stream("audio", "aac", 1)>>
    ELSE <<Stream("video", kind, 1), Stream("audio", "aac", 1)>>

\* stream lists the probe is applied to as a function
MaxStreams == 2
StreamPool ==
    {Stream("video", c, d) : c \in {"h264", "av1"}, d \in {0, 1}}
        \cup {Stream("audio", "aac", 1)}
StreamLists ==
    UNION {[1..n -> StreamPool] : n \in 0..MaxStreams}

\* ------------------------------------------------------------- classifier
\* A path is [dir, stem, ext]; a file name is the sequence of its parts, so
\* that basePath + ".websafe" is a concatenation. strings.ToLower and
\* strings.Contains are tabulated on the strings of the model.
ClassDirs == {"tv", "bluray"}
ClassStems == {"show", "show.webrip"}
ClassExts == {".mkv", ".MKV", ".mp4"}
ClassPaths == [dir : ClassDirs, stem : ClassStems, ext : ClassExts]

ToLower(str) == IF str = ".MKV" THEN ".mkv" ELSE str

\* how many of webTokens / discTokens strings.Contains finds in str
CountWebTokens(str) == IF str = "show.webrip" THEN 1 ELSE 0
CountDiscTokens(str) == IF str = "bluray" THEN 1 ELSE 0
\* how many of webMuxers / discMuxers are found in the two tags
CountWebMuxers(app, lib) == IF app = "libwebm" \/ lib = "libwebm" THEN 1 ELSE 0
CountDiscMuxers(app, lib) == IF app = "mkvmerge" \/ lib = "mkvmerge" THEN 1 ELSE 0

\* strings.TrimSuffix(filePath, suffix): case-sensitive
TrimSuffix(path, suffix) ==
    IF path.ext = suffix THEN <<path.dir, path.stem>>
    ELSE <<path.dir, path.stem, path.ext>>

\* the sidecar <basename><suffix> next to a file
Sidecar(path, suffix) == <<path.dir, path.stem, suffix>>

\* format block: format_name, tags, bit_rate (0: no bit_rate)
ClassFormats ==
    [name : {"matroska,webm", "mov,mp4,m4a,3gp,3g2,mj2"},
     muxing_app : {"", "mkvmerge"},
     writing_library : {""},
     bit_rate : {0, 100000}]

\* video streams as the classifier reads them
ClassStream(avg, w, h) ==
    [type |-> "video", avg_frame_rate |-> avg, r_frame_rate |-> "24/1",
     width |-> w, height |-> h]
ClassStreamLists ==
    {<<ClassStream(avg, d[1], d[2])>> :
        avg \in {"24/1", "24000/1001"}, d \in {<<1920, 1080>>, <<853, 480>>}}

\* states of the file system the classifier can meet: which sidecars exist
SidecarSets(path) ==
    SUBSET {Sidecar(path, ".websafe"), Sidecar(path, ".nowebsafe"),
            <<path.dir, path.stem, path.ext, ".websafe">>}

\* os.Stat(name) succeeds
Exists(fs, name) == name \in fs

IsMatroska(name) == name = "matroska,webm"
IsMp4(name) == name = "mov,mp4,m4a,3gp,3g2,mj2"

\* a signal: twice its score (the scores are multiples of 0.5) and its reason
Sig(cond, score2, reason) ==
    IF cond THEN <<[score2 |-> score2, reason |-> reason]>> ELSE <<>>

\* the signals of one video stream: frame rate (3), dimensions (4)
VfrSignal(format, streams) ==
    LET vs == VideoStreams(streams)
        differ == {k \in 1..Len(vs) :
                     /\ vs[k].avg_frame_rate # "" /\ vs[k].r_frame_rate # ""
                     /\ vs[k].avg_frame_rate # vs[k].r_frame_rate}
    IN Sig(differ # {} /\ ~IsMatroska(format.name), 5, "video: VFR detected")

RECURSIVE DimSignals(_, _)
DimSignals(format, vs) ==
    IF vs = <<>> THEN <<>>
    ELSE LET st == Head(vs) IN
         Sig(~IsMatroska(format.name) /\ st.width > 0 /\ st.width % 2 # 0,
             3, "video: odd width")
         \o Sig(~IsMatroska(format.name) /\ st.height > 0 /\ st.height % 2 # 0,
                3, "video: odd height")
         \o Sig(st.width > 0 /\ st.height > 0
                  /\ (10 * st.width < 13 * st.height \/ 2 * st.width > 5 * st.height),
                1, "video: unusual AR")
         \o DimSignals(format, Tail(vs))

\* bitrate against resolution (5): the first video stream with a height
BitrateSignal(format, streams) ==
    LET vs == SelectSeq(VideoStreams(streams), LAMBDA st : st.height > 0) IN
    IF format.bit_rate = 0 \/ vs = <<>> THEN <<>>
    ELSE LET st == vs[1]
             px == st.width * st.height
         IN IF 10 * format.bit_rate < px /\ st.height >= 1080
            THEN Sig(TRUE, 2, "bitrate: low for resolution")
            ELSE Sig(10 * format.bit_rate > 3 * px /\ st.height >= 1080,
                     -2, "bitrate: high for resolution")

\* all signals of ClassifyWebSource without an override, in the order of the code
Signals(path, format, streams) ==
    LET fileName == path.stem
        dirName == path.dir
        ext == ToLower(path.ext)
    IN Sig(CountWebTokens(fileName) > 0, 6 * CountWebTokens(fileName), "filename: web token")
       \o Sig(CountDiscTokens(fileName) > 0, -8 * CountDiscTokens(fileName), "filename: disc token")
       \o Sig(CountWebTokens(dirName) > 0, 2 * CountWebTokens(dirName), "directory: web token")
       \o Sig(CountDiscTokens(dirName) > 0, -4 * CountDiscTokens(dirName), "directory: disc token")
       \o (IF ext \in {".mp4", ".mov", ".webm"}
           THEN Sig(TRUE, 4, "extension: web container")
           ELSE Sig(ext = ".mkv", -2, "extension: .mkv"))
       \o (IF IsMp4(format.name)
           THEN Sig(TRUE, 5, "format: web container")
           ELSE Sig(IsMatroska(format.name), -3, "format: matroska"))
       \o Sig(CountWebMuxers(format.muxing_app, format.writing_library) > 0,
              6 * CountWebMuxers(format.muxing_app, format.writing_library),
              "muxer: web-leaning")
       \o Sig(CountDiscMuxers(format.muxing_app, format.writing_library) > 0,
              -6 * CountDiscMuxers(format.muxing_app, format.writing_library),
              "muxer: disc-leaning")
       \o VfrSignal(format, streams)
       \o DimSignals(format, VideoStreams(streams))
       \o BitrateSignal(format, streams)

RECURSIVE SumScore2(_)
SumScore2(sigs) == IF sigs = <<>> THEN 0 ELSE Head(sigs).score2 + SumScore2(Tail(sigs))

\* metadata.ClassifyWebSource; fs is the file system at the time of the call.
\* score2 is twice the score: the thresholds +2.0 and -2.0 are 4 and -4.
ClassifyWebSource(path, format, streams, fs) ==
    LET basePath == TrimSuffix(path, ToLower(path.ext))
        sigs == Signals(path, format, streams)
        score2 == SumScore2(sigs)
        reasons == [k \in 1..Len(sigs) |-> sigs[k].reason]
    IN IF Exists(fs, basePath \o <<".websafe">>)
       THEN [class |-> "WebLike", score2 |-> 20,
             reasons |-> <<"override: .websafe sidecar file">>]
       ELSE IF Exists(fs, basePath \o <<".nowebsafe">>)
       THEN [class |-> "DiscLike", score2 |-> -20,
             reasons |-> <<"override: .nowebsafe sidecar file">>]
       ELSE IF score2 >= 4 THEN [class |-> "WebLike", score2 |-> score2, reasons |-> reasons]
       ELSE IF score2 <= -4 THEN [class |-> "DiscLike", score2 |-> score2, reasons |-> reasons]
       ELSE [class |-> "Unknown", score2 |-> score2,
             reasons |-> Append(reasons, "ambiguous: score near zero")]

\* ------------------------------------------------------------------ state
VARIABLES
    roots,          \* cfg.LibraryRoots
    src,            \* library files, by path
    tmp,            \* <base>.av1-tmp.mkv, by base
    why,            \* contents of <base>.av1qsvd-why.txt, by base ("" = no file)
    skip,           \* whether <base>.av1qsvd-skip exists, by base
    disk,           \* contents of <id>.json in cfg.JobStateDir, by id
    wr,             \* the os.WriteFile call of SaveJob that is in progress
    pc,             \* position of the daemon in main()
    mem,            \* the Job objects on the daemon's heap, by id
    existingJobs,   \* main: existingJobs (pointers)
    newJobs,        \* main: newJobs (pointers)
    pendingJobs,    \* main: pendingJobs (pointers)
    wi,             \* index of the next file of the walk
    di,             \* index of the drain loop in pendingJobs
    probe,          \* probeResult of the current drain iteration
    handed,         \* history: jobs handed to ProcessJob in this run, in order
    stab,           \* ProcessJob: the two size samples of scan.CheckFileStable
    args,           \* the argument list of the running encoder (<<>>: none runs)
    runs,           \* number of daemon runs started
    edits,          \* number of operator edits of the library
    faults,         \* number of environment failures so far
    tuiJobs,        \* dashboard: m.jobs, the result of the last refreshJobs
    cfg,            \* main: cfg, the configuration of the current run
    enc,            \* the jobs whose encoder subprocess is running
    hist,           \* history: the store at the end of the last scan pass
    call            \* the last call of a pure function: arguments and result

vars == <<roots, src, tmp, why, skip, disk, wr, pc, mem, existingJobs, newJobs,
          pendingJobs, wi, di, probe, handed, stab, runs, edits, faults, tuiJobs, cfg, enc, args, hist, call>>

fsVars == <<src, tmp, why, skip>>
daemonVars == <<roots, src, tmp, why, skip, disk, wr, pc, mem, existingJobs, newJobs,
                pendingJobs, wi, di, probe, handed, stab, runs, edits, faults, tuiJobs,
                cfg, enc, args, hist>>
heapVars == <<mem, existingJobs, newJobs, pendingJobs, wi, di, probe, handed, stab>>

NoJob == [id |-> 0, path |-> "", status |-> "", reason |-> "",
          started |-> FALSE, finished |-> FALSE, orig |-> 0, new |-> 0]
NoWrite == [active |-> FALSE, id |-> 0, data |-> <<>>, old |-> <<>>]
NoProbe == [hasVideo |-> FALSE, hasAV1 |-> FALSE, isWeb |-> FALSE]

\* cfg before config.LoadConfig has run
NoConfig == [LibraryRoots |-> <<>>, loadErr |-> FALSE]

\* variant of DefaultConfig with a library root in the defaults
DefaultConfigWithRoot == [LibraryRoots |-> <<"lib">>, loadErr |-> TRUE]

\* config.DefaultConfig(), which main takes when LoadConfig returns an error:
\* no library roots (MinBytes and MaxSizeRatio are the values above)
DefaultConfig == [LibraryRoots |-> <<>>, loadErr |-> TRUE]

\* config.LoadConfig in main: the configuration file (fileRoots is its
\* library_roots) when it can be read and parsed, else the defaults
LoadConfig(fileRoots, ok) ==
    IF ok THEN [LibraryRoots |-> fileRoots, loadErr |-> FALSE] ELSE DefaultConfig

\* no scan pass has completed
NoHist == [valid |-> FALSE, store |-> <<>>, f0 |-> 0, n |-> 0]

\* no pure function was called
NoCall == [op |-> "none"]

\* scan.CheckFileStable has not taken its samples
NoSamples == [taken |-> FALSE, size0 |-> 0, size1 |-> 0]

\* the media extensions of the walk callback
MediaExts == {".mkv", ".mp4", ".m4v"}

\* ext := strings.ToLower(filepath.Ext(path)) in the walk callback
ExtLower(p) == ToLower(Ext(p))

\* strings.TrimSuffix(path, ext) with the lower-cased ext: the suffix is
\* removed only when the path ends with it as written
TrimLowerExt(p) == IF Ext(p) = ExtLower(p) THEN TrimExt(p) ELSE p

\* os.Stat(strings.TrimSuffix(path, ext) + ".av1qsvd-skip") succeeds in the
\* walk callback. Markers exist only where ProcessJob writes them, at
\* TrimExt(path) + ".av1qsvd-skip".
SkipMarker(p) == TrimLowerExt(p) \in Bases /\ skip[TrimLowerExt(p)]

\* metadata.ProbeFile on a readable file: HasVideo, HasAV1
ProbeFile(f) ==
    LET r == ProbeStreams(StreamsOf(f.kind))
    IN [hasVideo |-> r.hasVideo, hasAV1 |-> r.hasAV1]

\* the library path p as the classifier reads it
PathOf(p) ==
    IF p = FileA THEN [dir |-> "lib/sub", stem |-> "m", ext |-> ".mkv"]
    ELSE IF p = FileB THEN [dir |-> "lib", stem |-> "n", ext |-> ".mp4"]
    ELSE [dir |-> "lib2", stem |-> "m", ext |-> Ext(p)]

\* the format block ffprobe reports for the file f at p: the encoder writes
\* Matroska (-f matroska), an original has the container of its extension
FormatOf(p, f) ==
    [name |-> IF f.data = "orig" /\ Ext(p) = ".mp4"
              THEN "mov,mp4,m4a,3gp,3g2,mj2" ELSE "matroska,webm",
     muxing_app |-> "", writing_library |-> "", bit_rate |-> 0]

\* the streams of f as the classifier reads them: constant frame rate, 1920x1080
ClassStreamsOf(f) ==
    IF f.kind = "audio" THEN <<>> ELSE <<ClassStream("24/1", 1920, 1080)>>

\* the classification ProbeFile computes for the file f at p; the library has
\* no .websafe or .nowebsafe sidecars
SourceDecision(p, f) ==
    ClassifyWebSource(PathOf(p), FormatOf(p, f), ClassStreamsOf(f), {})

\* WebSourceDecision.IsWebLike: Unknown is treated as web-like
IsWebLike(d) == d.class \in {"WebLike", "Unknown"}

\* metadata.ProbeFile on the file f at p: HasVideo, HasAV1, IsWebRipLike
ProbeResult(p, f) ==
    [hasVideo |-> ProbeFile(f).hasVideo, hasAV1 |-> ProbeFile(f).hasAV1,
     isWeb |-> IsWebLike(SourceDecision(p, f))]

Init ==
    /\ roots \in RootLists
    /\ src \in (IF roots = <<"lib2">> THEN TwinLibraries ELSE Libraries)
    /\ tmp = [b \in Bases |-> NoFile]
    /\ why = [b \in Bases |-> ""]
    /\ skip = [b \in Bases |-> FALSE]
    /\ disk = [i \in JobIds |-> NoRec]
    /\ wr = NoWrite
    /\ pc = "off"
    /\ mem = [i \in JobIds |-> NoJob]
    /\ existingJobs = <<>>
    /\ newJobs = <<>>
    /\ pendingJobs = <<>>
    /\ wi = 1
    /\ di = 1
    /\ probe = NoProbe
    /\ handed = <<>>
    /\ stab = NoSamples
    /\ runs = 0
    /\ edits = 0
    /\ faults = 0
    /\ tuiJobs = <<>>
    /\ cfg = NoConfig
    /\ enc = {}
    /\ args = <<>>
    /\ hist = NoHist
    /\ call = NoCall

\* ------------------------------------------------------ fault budget
\* outcomes of an operation of the environment that can fail (TRUE = success),
\* when n failures were already chosen in the same step
OkAfter(n) == IF faults + n < MaxFaults THEN BOOLEAN ELSE {TRUE}
Oks == OkAfter(0)
Cost(ok) == IF ok THEN 0 ELSE 1
CanFail == faults < MaxFaults

\* ------------------------------------------------------------- job store
\* jobs.SaveJob up to the write: os.WriteFile opens <id>.json with O_TRUNC,
\* which empties the file, and then writes the data (SaveWrite below).
\* wr.old keeps what the file held before the open.
\* ok = FALSE: MkdirAll or the open fails, the file is not touched and
\* SaveJob returns an error.
SaveJob(job, ok) ==
    IF ok
    THEN /\ disk' = [disk EXCEPT ![job.id] = <<>>]
         /\ wr' = [active |-> TRUE, id |-> job.id, data |-> Marshal(job),
                   old |-> disk[job.id]]
    ELSE UNCHANGED <<disk, wr>>

\* the write of os.WriteFile completes; SaveJob returns nil
SaveWrite ==
    /\ wr.active
    /\ disk' = [disk EXCEPT ![wr.id] = wr.data]
    /\ wr' = NoWrite
    /\ UNCHANGED <<roots, pc, runs, edits, faults, tuiJobs, cfg, enc, args, hist, call>>
    /\ UNCHANGED fsVars
    /\ UNCHANGED heapVars

\* ------------------------------------------------------------- main: start
EmptyHeap == [i \in JobIds |-> NoJob]

\* the heap after LoadAllJobs: one Job object per parsed record
HeapOf(js) ==
    [i \in JobIds |->
        IF \E k \in 1..Len(js) : js[k].id = i
        THEN js[CHOOSE k \in 1..Len(js) : js[k].id = i]
        ELSE NoJob]

\* main, from process start to the beginning of the scan pass
Start ==
    /\ pc \in {"off", "done"}
    /\ runs < MaxRuns
    /\ runs' = runs + 1
    /\ \E ok \in BOOLEAN : cfg' = LoadConfig(roots, ok)
    /\ LET loaded == LoadAllJobs(disk) IN
        /\ mem' = HeapOf(loaded)
        /\ existingJobs' = [k \in 1..Len(loaded) |-> loaded[k].id]
    /\ newJobs' = <<>>
    /\ pendingJobs' = <<>>
    /\ wi' = 1
    /\ di' = 1
    /\ probe' = NoProbe
    /\ handed' = <<>>
    /\ stab' = NoSamples
    /\ pc' = IF Len(cfg'.LibraryRoots) = 0 THEN "done" ELSE "scan"
    /\ hist' = IF pc' = "scan" THEN [hist EXCEPT !.f0 = faults] ELSE hist
    /\ UNCHANGED <<roots, disk, wr, edits, faults, tuiJobs, enc, args, call>>
    /\ UNCHANGED fsVars

\* ---------------------------------------------------------- main: scanner
Walk == WalkAll(cfg.LibraryRoots)

\* identifiers not yet the name of any job file and not in use
FreshIds == {i \in JobIds : disk[i] = NoRec /\ mem[i] = NoJob}

\* uuid.New(): a fresh identifier. The model takes the smallest one, so the
\* directory order of LoadAllJobs is the order of creation.
NewIds == {i \in FreshIds : \A k \in FreshIds : i <= k}

\* the scanner's reset of a previously Skipped or Failed job
ResetJob(job) ==
    IF job.status \in {Skipped, Failed}
    THEN [job EXCEPT !.status = Pending, !.reason = "",
                     !.started = FALSE, !.finished = FALSE]
    ELSE job

\* the scanner's size floor test
BelowFloor(size) == size <= MinBytes

\* a rejection by the scanner: the why sidecar is written, no job is touched
ScanReject(p, reason) ==
    /\ why' = [why EXCEPT ![TrimExt(p)] = reason]
    /\ wi' = wi + 1
    /\ UNCHANGED <<src, tmp, skip, disk, wr, mem, newJobs>>

\* the walk callback for one media file. First disjunct: filepath.Walk passes
\* an error for the path (err != nil), the callback logs it and returns nil.
ScanFile ==
    /\ pc = "scan"
    /\ ~wr.active
    /\ wi <= Len(Walk)
    /\ LET p == Walk[wi]
           info == src[p]
           e == FindJobBySourcePath(existingJobs, mem, p)
       IN
        \/ /\ CanFail
           /\ faults' = faults + 1
           /\ wi' = wi + 1
           /\ UNCHANGED <<src, tmp, why, skip, disk, wr, mem, newJobs>>
        \/ IF ExtLower(p) \notin MediaExts
           THEN /\ wi' = wi + 1
                /\ UNCHANGED <<src, tmp, why, skip, disk, wr, mem, newJobs, faults>>
           ELSE IF SkipMarker(p)
           THEN ScanReject(p, "marked with .av1qsvd-skip") /\ UNCHANGED faults
           ELSE IF e # 0 /\ mem[e].status = Success
           THEN /\ wi' = wi + 1
                /\ UNCHANGED <<src, tmp, why, skip, disk, wr, mem, newJobs, faults>>
           ELSE IF BelowFloor(info.size)
           THEN ScanReject(p, "file < 2GB") /\ UNCHANGED faults
           ELSE \/ /\ CanFail
                   /\ ScanReject(p, "ffprobe failed")
                   /\ faults' = faults + 1
                \/ LET pr == ProbeFile(info) IN
                   IF ~pr.hasVideo THEN ScanReject(p, "not a video") /\ UNCHANGED faults
                   ELSE IF AlreadyAV1(pr) THEN ScanReject(p, "already av1") /\ UNCHANGED faults
                   ELSE \E ok \in Oks :
                        \E id \in (IF e # 0 THEN {e} ELSE NewIds) :
                          LET base == IF e # 0 THEN ResetJob(mem[e]) ELSE NewJob(id, p)
                              job == [base EXCEPT !.orig = info.size]
                          IN /\ SaveJob(job, ok)
                             /\ mem' = IF e # 0 \/ ok THEN [mem EXCEPT ![id] = job] ELSE mem
                             /\ newJobs' = IF ok THEN Append(newJobs, id) ELSE newJobs
                             /\ wi' = wi + 1
                             /\ faults' = faults + Cost(ok)
                             /\ UNCHANGED <<src, tmp, why, skip>>
    /\ UNCHANGED <<roots, pc, existingJobs, pendingJobs, di, probe, handed, stab,
                   runs, edits, tuiJobs, cfg, enc, args, hist, call>>

\* the jobs of js whose status is Pending, in order
RECURSIVE PendingOf(_, _)
PendingOf(js, heap) ==
    IF js = <<>> THEN <<>>
    ELSE (IF heap[Head(js)].status = Pending THEN <<Head(js)>> ELSE <<>>)
         \o PendingOf(Tail(js), heap)

\* main: pendingJobs, the Pending Jobs of existingJobs and then those of newJobs
PendingList(existing, new, heap) ==
    PendingOf(existing, heap) \o PendingOf(new, heap)

\* history: the scan pass ends. The store is kept for the comparison with the
\* next pass; valid tells that no failure of the environment hit this pass,
\* n counts the passes that followed one another with nothing in between.
EndOfPass ==
    [valid |-> faults = hist.f0,
     store |-> disk,
     f0 |-> hist.f0,
     n |-> IF hist.valid /\ faults = hist.f0 THEN hist.n + 1 ELSE 1]

\* main after the walk: the list of pending jobs
BuildPending ==
    /\ pc = "scan"
    /\ ~wr.active
    /\ wi > Len(Walk)
    /\ pendingJobs' = PendingList(existingJobs, newJobs, mem)
    /\ hist' = EndOfPass
    /\ pc' = IF pendingJobs' = <<>> THEN "done" ELSE "drain"
    /\ di' = 1
    /\ UNCHANGED <<roots, disk, wr, mem, existingJobs, newJobs, wi, probe, handed, stab,
                   runs, edits, faults, tuiJobs, cfg, enc, args, call>>
    /\ UNCHANGED fsVars

\* ------------------------------------------------------- main: drain loop
\* the job of the current drain iteration
Cur == mem[pendingJobs[di]]
CurBase == TrimExt(Cur.path)

SetCur(job) == mem' = [mem EXCEPT ![job.id] = job]

\* variant of NextJob that leaves the loop (break) instead of continuing
NextJobBreak ==
    /\ pc' = "drain"
    /\ di' = Len(pendingJobs) + 1
    /\ probe' = NoProbe

\* the drain loop moves on to the next pending job
NextJob ==
    /\ pc' = "drain"
    /\ di' = di + 1
    /\ probe' = NoProbe

\* top of a drain iteration: re-probe; on failure mark Failed, save, continue;
\* otherwise call ProcessJob
DrainProbe ==
    /\ pc = "drain"
    /\ ~wr.active
    /\ di <= Len(pendingJobs)
    /\ hist' = NoHist
    /\ \/ /\ CanFail
          /\ \E ok \in OkAfter(1) :
               LET job == [Cur EXCEPT !.status = Failed, !.reason = "ffprobe failed"]
               IN /\ SetCur(job)
                  /\ SaveJob(job, ok)
                  /\ faults' = faults + 1 + Cost(ok)
          /\ NextJob
          /\ UNCHANGED handed
       \/ /\ probe' = ProbeResult(Cur.path, src[Cur.path])
          /\ handed' = Append(handed, Cur.id)
          /\ pc' = "process"
          /\ UNCHANGED <<disk, wr, mem, di, faults>>
    /\ UNCHANGED <<roots, existingJobs, newJobs, pendingJobs, wi, stab, runs, edits, tuiJobs, cfg, enc, args, call>>
    /\ UNCHANGED fsVars

\* the drain loop ends, main returns
DrainEnd ==
    /\ pc = "drain"
    /\ ~wr.active
    /\ di > Len(pendingJobs)
    /\ pc' = "done"
    /\ UNCHANGED <<roots, disk, wr, runs, edits, faults, tuiJobs, cfg, enc, args, hist, call>>
    /\ UNCHANGED fsVars
    /\ UNCHANGED heapVars

\* ----------------------------------------------------- daemon.ProcessJob
\* the sizes the two os.Stat calls of scan.CheckFileStable can return for a
\* file of the given size: a copy in progress grows the file during the wait
SizeSamples(size) == {<<size, size>>, <<size, size + 1>>}

\* variant of CheckFileStable that reports every file as stable
CheckFileStableAlways(size0, size1) == TRUE

\* scan.CheckFileStable: the file is stable iff the two samples are equal
CheckFileStable(size0, size1) == size0 = size1

\* ProcessJob, scan.CheckFileStable: first os.Stat, wait, second os.Stat
PJSample ==
    /\ pc = "process"
    /\ ~stab.taken
    /\ \E s \in SizeSamples(src[Cur.path].size) :
         stab' = [taken |-> TRUE, size0 |-> s[1], size1 |-> s[2]]
    /\ UNCHANGED <<roots, disk, wr, pc, mem, existingJobs, newJobs, pendingJobs, wi, di,
                   probe, handed, runs, edits, faults, tuiJobs, cfg, enc, args, hist, call>>
    /\ UNCHANGED fsVars

\* ProcessJob, scan.CheckFileStable returns an error (a stat fails)
PJStableError ==
    /\ pc = "process"
    /\ ~stab.taken
    /\ CanFail
    /\ faults' = faults + 1
    /\ NextJob
    /\ UNCHANGED <<roots, disk, wr, mem, existingJobs, newJobs, pendingJobs, wi,
                   handed, stab, runs, edits, tuiJobs, cfg, enc, args, hist, call>>
    /\ UNCHANGED fsVars

\* ProcessJob, the two size samples differ: Skipped, why sidecar, return nil
PJUnstable ==
    /\ pc = "process"
    /\ stab.taken
    /\ ~CheckFileStable(stab.size0, stab.size1)
    /\ SetCur([Cur EXCEPT !.status = Skipped, !.reason = "file still copying",
                          !.finished = TRUE])
    /\ why' = [why EXCEPT ![CurBase] = "file still copying"]
    /\ stab' = NoSamples
    /\ NextJob
    /\ UNCHANGED <<roots, src, tmp, skip, disk, wr, existingJobs, newJobs,
                   pendingJobs, wi, handed, runs, edits, faults, tuiJobs, cfg, enc, args, hist, call>>

\* ProcessJob, the file is stable: mark Running, set StartedAt, save
PJRunning ==
    /\ pc = "process"
    /\ stab.taken
    /\ CheckFileStable(stab.size0, stab.size1)
    /\ stab' = NoSamples
    /\ \E ok \in Oks :
         LET job == [Cur EXCEPT !.status = Running, !.started = TRUE]
         IN /\ SetCur(job)
            /\ SaveJob(job, ok)
            /\ faults' = faults + Cost(ok)
            /\ IF ok THEN /\ pc' = "args"
                          /\ UNCHANGED <<di, probe>>
               ELSE NextJob
    /\ UNCHANGED <<roots, existingJobs, newJobs, pendingJobs, wi, handed, runs,
                   edits, tuiJobs, cfg, enc, args, hist, call>>
    /\ UNCHANGED fsVars

\* ffmpeg.TranscodeArgs fails iff the probe result has no main video stream
TranscodeArgsErr(pr) == ~pr.hasVideo

\* variant of TranscodeArgs that leaves out the web-safe output flags
TranscodeArgsNoOutputFlags(pr, isWebRipLike) ==
    <<"-hide_banner", "-hwaccel", "vaapi">>
    \o (IF isWebRipLike THEN <<"-fflags", "+genpts", "-copyts", "-start_at_zero">> ELSE <<>>)
    \o <<"-i", "input", "-map", "0", "-vf:v:0",
         IF isWebRipLike THEN "scale,even,setsar" ELSE "even,setsar",
         "-c:v:0", "av1_vaapi">>
    \o <<"-c:a", "copy", "-c:s", "copy", "-f", "matroska", "output">>

\* ffmpeg.TranscodeArgs for a probe result with a main video stream: the
\* argument list (device, mapping and quality arguments shortened)
TranscodeArgs(pr, isWebRipLike) ==
    <<"-hide_banner", "-hwaccel", "vaapi">>
    \o (IF isWebRipLike THEN <<"-fflags", "+genpts", "-copyts", "-start_at_zero">> ELSE <<>>)
    \o <<"-i", "input", "-map", "0", "-vf:v:0",
         IF isWebRipLike THEN "scale,even,setsar" ELSE "even,setsar",
         "-c:v:0", "av1_vaapi">>
    \o (IF isWebRipLike THEN <<"-vsync", "0", "-avoid_negative_ts", "make_zero">> ELSE <<>>)
    \o <<"-c:a", "copy", "-c:s", "copy", "-f", "matroska", "output">>

PartialTmp == MkFile("partial", "av1", 0)

\* ProcessJob: build the arguments and start the encoder. ffmpeg is run
\* without -y: it creates the output file only where none exists.
PJArgs ==
    /\ pc = "args"
    /\ ~wr.active
    /\ IF TranscodeArgsErr(probe)
       THEN \E ok \in Oks :
              LET job == [Cur EXCEPT !.status = Failed,
                                     !.reason = "failed to build ffmpeg args",
                                     !.finished = TRUE]
              IN /\ SetCur(job)
                 /\ SaveJob(job, ok)
                 /\ faults' = faults + Cost(ok)
                 /\ pc' = "ret"
                 /\ UNCHANGED <<tmp, enc, args>>
       ELSE /\ enc' = enc \cup {Cur.id}
            /\ args' = TranscodeArgs(probe, probe.isWeb)
            /\ IF tmp[CurBase].exists
               THEN /\ pc' = "runx"
                    /\ UNCHANGED tmp
               ELSE /\ pc' = "run"
                    /\ tmp' = [tmp EXCEPT ![CurBase] = PartialTmp]
            /\ UNCHANGED <<mem, disk, wr, faults>>
    /\ UNCHANGED <<roots, src, why, skip, existingJobs, newJobs, pendingJobs, wi, di,
                   probe, handed, stab, runs, edits, tuiJobs, cfg, hist, call>>

\* variant of RunTranscodeErr that reports no error whatever the exit code
RunTranscodeErrNever(exitCode) == FALSE

\* RunTranscode returns an error iff the encoder did not exit with code 0
RunTranscodeErr(exitCode) == exitCode # 0

\* exit codes of the encoder: 0, or 1 for every failure
ExitCodes == {0, 1}

\* variant of CmdOutput that returns while the subprocess is still running
CmdOutputNoWait(running, id) == running

\* cmd.Output() in RunTranscode returns when the subprocess has exited: the
\* encoder of job id is no longer among the running ones
CmdOutput(running, id) == running \ {id}

\* ProcessJob: the encoder exits
PJEncoderExit ==
    /\ pc \in {"run", "runx"}
    /\ enc' = CmdOutput(enc, Cur.id)
    /\ args' = <<>>
    /\ \E exitCode \in (IF pc = "run" THEN ExitCodes ELSE {1}) :
        IF RunTranscodeErr(exitCode)
        THEN \E ok \in Oks :
               LET job == [Cur EXCEPT !.status = Failed, !.reason = "ffmpeg exit code",
                                      !.finished = TRUE]
               IN /\ SetCur(job)
                  /\ SaveJob(job, ok)
                  /\ faults' = faults + Cost(ok)
                  /\ pc' = "encfail"
                  /\ UNCHANGED tmp
        ELSE /\ IF exitCode = 0
                THEN \E s \in OutSizes :
                       tmp' = [tmp EXCEPT ![CurBase] = MkFile("enc", "av1", s)]
                ELSE UNCHANGED tmp
             /\ pc' = "stat"
             /\ UNCHANGED <<mem, disk, wr, faults>>
    /\ UNCHANGED <<roots, src, why, skip, existingJobs, newJobs, pendingJobs, wi, di,
                   probe, handed, stab, runs, edits, tuiJobs, cfg, hist, call>>

\* ProcessJob after the save on encoder failure: why sidecar, remove output
PJEncoderFailed ==
    /\ pc = "encfail"
    /\ ~wr.active
    /\ why' = [why EXCEPT ![CurBase] = Cur.reason]
    /\ tmp' = [tmp EXCEPT ![CurBase] = NoFile]
    /\ NextJob
    /\ UNCHANGED <<roots, src, skip, disk, wr, mem, existingJobs, newJobs, pendingJobs,
                   wi, handed, stab, runs, edits, faults, tuiJobs, cfg, enc, args, hist, call>>

\* variant of CheckSizeGate that compares with the original size itself
CheckSizeGateNoRatio(origBytes, newBytes) == newBytes <= origBytes

\* daemon.CheckSizeGate: float64(newBytes) <= float64(origBytes) * maxRatio
CheckSizeGate(origBytes, newBytes) == newBytes * RatioDen <= origBytes * RatioNum

\* ProcessJob: os.Stat(outputPath) fails: Failed, save
PJStatError ==
    /\ pc = "stat"
    /\ CanFail
    /\ \E ok \in OkAfter(1) :
         LET job == [Cur EXCEPT !.status = Failed,
                                !.reason = "failed to stat output file",
                                !.finished = TRUE]
         IN /\ SetCur(job)
            /\ SaveJob(job, ok)
            /\ faults' = faults + 1 + Cost(ok)
    /\ pc' = "ret_rm"
    /\ UNCHANGED <<roots, existingJobs, newJobs, pendingJobs, wi, di, probe,
                   handed, stab, runs, edits, tuiJobs, cfg, enc, args, hist, call>>
    /\ UNCHANGED fsVars

\* ProcessJob: record NewSize and apply the size gate; on rejection Skipped,
\* why sidecar, skip marker, remove output, save
PJSizeGate ==
    /\ pc = "stat"
    /\ tmp[CurBase].exists
    /\ LET sized == [Cur EXCEPT !.new = tmp[CurBase].size] IN
       IF ~CheckSizeGate(sized.orig, sized.new)
       THEN \E ok \in Oks :
              LET job == [sized EXCEPT !.status = Skipped, !.reason = "size gate",
                                       !.finished = TRUE]
              IN /\ SetCur(job)
                 /\ why' = [why EXCEPT ![CurBase] = "size gate"]
                 /\ skip' = [skip EXCEPT ![CurBase] = TRUE]
                 /\ tmp' = [tmp EXCEPT ![CurBase] = NoFile]
                 /\ SaveJob(job, ok)
                 /\ faults' = faults + Cost(ok)
                 /\ pc' = "ret"
       ELSE /\ SetCur(sized)
            /\ pc' = "replace"
            /\ UNCHANGED <<tmp, why, skip, disk, wr, faults>>
    /\ UNCHANGED <<roots, src, existingJobs, newJobs, pendingJobs, wi, di, probe,
                   handed, stab, runs, edits, tuiJobs, cfg, enc, args, hist, call>>

\* daemon.AtomicReplaceFile(job.SourcePath, outputPath): newPath is already the
\* temporary path, so the one write is os.Rename(tmpPath, originalPath)
AtomicReplaceFile(p, b) ==
    /\ src' = [src EXCEPT ![p] = tmp[b]]
    /\ tmp' = [tmp EXCEPT ![b] = NoFile]

\* ProcessJob: AtomicReplaceFile returns an error: Failed, save
PJReplaceError ==
    /\ pc = "replace"
    /\ CanFail
    /\ \E ok \in OkAfter(1) :
         LET job == [Cur EXCEPT !.status = Failed, !.reason = "failed to replace file",
                                !.finished = TRUE]
         IN /\ SetCur(job)
            /\ SaveJob(job, ok)
            /\ faults' = faults + 1 + Cost(ok)
    /\ pc' = "ret_rm"
    /\ UNCHANGED <<roots, existingJobs, newJobs, pendingJobs, wi, di, probe,
                   handed, stab, runs, edits, tuiJobs, cfg, enc, args, hist, call>>
    /\ UNCHANGED fsVars

\* ProcessJob: the rename over the original succeeds
PJReplace ==
    /\ pc = "replace"
    /\ tmp[CurBase].exists
    /\ AtomicReplaceFile(Cur.path, CurBase)
    /\ pc' = "verify"
    /\ UNCHANGED <<roots, why, skip, disk, wr, mem, existingJobs, newJobs, pendingJobs,
                   wi, di, probe, handed, stab, runs, edits, faults, tuiJobs, cfg, enc, args, hist, call>>

\* ProcessJob: os.Stat(job.SourcePath) after the replace fails: Failed, save
PJVerifyError ==
    /\ pc = "verify"
    /\ CanFail
    /\ \E ok \in OkAfter(1) :
         LET job == [Cur EXCEPT !.status = Failed,
                                !.reason = "replaced file verification failed",
                                !.finished = TRUE]
         IN /\ SetCur(job)
            /\ SaveJob(job, ok)
            /\ faults' = faults + 1 + Cost(ok)
    /\ pc' = "ret"
    /\ UNCHANGED <<roots, existingJobs, newJobs, pendingJobs, wi, di, probe,
                   handed, stab, runs, edits, tuiJobs, cfg, enc, args, hist, call>>
    /\ UNCHANGED fsVars

\* ProcessJob: mark Success, set FinishedAt, save
PJSuccess ==
    /\ pc = "verify"
    /\ \E ok \in Oks :
         LET job == [Cur EXCEPT !.status = Success, !.finished = TRUE]
         IN /\ SetCur(job)
            /\ SaveJob(job, ok)
            /\ faults' = faults + Cost(ok)
    /\ pc' = "ret"
    /\ UNCHANGED <<roots, existingJobs, newJobs, pendingJobs, wi, di, probe,
                   handed, stab, runs, edits, tuiJobs, cfg, enc, args, hist, call>>
    /\ UNCHANGED fsVars

\* ProcessJob returns after its last SaveJob (and os.Remove(outputPath) on the
\* paths that have one); the drain loop logs the result
PJReturn ==
    /\ pc \in {"ret", "ret_rm"}
    /\ ~wr.active
    /\ tmp' = IF pc = "ret_rm" THEN [tmp EXCEPT ![CurBase] = NoFile] ELSE tmp
    /\ NextJob
    /\ UNCHANGED <<roots, src, why, skip, disk, wr, mem, existingJobs, newJobs,
                   pendingJobs, wi, handed, stab, runs, edits, faults, tuiJobs, cfg, enc, args, hist, call>>

\* ------------------------------------------------------------ environment
\* lengths of the prefix of the data a killed os.WriteFile leaves in the file
CrashPrefixes(data) == {0, Len(data) \div 2}

\* the daemon process is killed (with its encoder child); the heap is lost
Crash ==
    /\ pc \notin {"off", "done"}
    /\ CanFail
    /\ faults' = faults + 1
    /\ pc' = "off"
    /\ enc' = {}
    /\ args' = <<>>
    /\ hist' = IF pc = "scan" THEN NoHist ELSE hist
    /\ IF wr.active
       THEN \E k \in CrashPrefixes(wr.data) :
              disk' = [disk EXCEPT ![wr.id] = SubSeq(wr.data, 1, k)]
       ELSE UNCHANGED disk
    /\ wr' = NoWrite
    /\ mem' = EmptyHeap
    /\ existingJobs' = <<>>
    /\ newJobs' = <<>>
    /\ pendingJobs' = <<>>
    /\ wi' = 1
    /\ di' = 1
    /\ probe' = NoProbe
    /\ handed' = <<>>
    /\ stab' = NoSamples
    /\ UNCHANGED <<roots, runs, edits, tuiJobs, cfg, call>>
    /\ UNCHANGED fsVars

\* between two runs the operator replaces a library file by an audio-only file
UserEdit ==
    /\ pc \in {"off", "done"}
    /\ runs >= 1
    /\ runs < MaxRuns
    /\ edits < MaxUserEdits
    /\ edits' = edits + 1
    /\ hist' = NoHist
    /\ \E k \in 1..Len(WalkAll(roots)) :
         LET p == WalkAll(roots)[k] IN
         /\ src[p].kind # "audio"
         /\ src' = [src EXCEPT ![p] = MkFile("orig", "audio", src[p].size)]
    /\ UNCHANGED <<roots, tmp, why, skip, disk, wr, pc, runs, faults, tuiJobs, cfg, enc, args, call>>
    /\ UNCHANGED heapVars

\* ------------------------------------------------------------- dashboard
\* tui refreshJobs: LoadAllJobs on the job directory as it is now
RefreshJobs ==
    /\ tuiJobs' = LoadAllJobs(disk)
    /\ UNCHANGED <<roots, disk, wr, pc, runs, edits, faults, cfg, enc, args, hist, call>>
    /\ UNCHANGED fsVars
    /\ UNCHANGED heapVars

\* ------------------------------------------------- the probe as functions
\* ProbeFile is applied to a stream list
CallProbeFile ==
    /\ call.op = "none"
    /\ \E streams \in StreamLists :
         call' = [op |-> "ProbeFile", streams |-> streams, out |-> ProbeStreams(streams)]
    /\ UNCHANGED daemonVars

\* ClassifyWebSource is applied to its arguments in some state of the file system
CallClassifyWebSource ==
    /\ call.op = "none"
    /\ \E path \in ClassPaths, format \in ClassFormats, streams \in ClassStreamLists :
         \E fs \in SidecarSets(path) :
            call' = [op |-> "ClassifyWebSource", path |-> path, format |-> format,
                     streams |-> streams, fs |-> fs,
                     out |-> ClassifyWebSource(path, format, streams, fs)]
    /\ UNCHANGED daemonVars

\* the call returns
CallReturn ==
    /\ call.op # "none"
    /\ call' = NoCall
    /\ UNCHANGED daemonVars

Next ==
    \/ Start
    \/ ScanFile
    \/ BuildPending
    \/ DrainProbe
    \/ DrainEnd
    \/ PJSample
    \/ PJStableError
    \/ PJUnstable
    \/ PJRunning
    \/ PJArgs
    \/ PJEncoderExit
    \/ PJEncoderFailed
    \/ PJStatError
    \/ PJSizeGate
    \/ PJReplaceError
    \/ PJReplace
    \/ PJVerifyError
    \/ PJSuccess
    \/ PJReturn
    \/ SaveWrite
    \/ Crash
    \/ UserEdit

Spec == Init /\ [][Next]_vars

\* the daemon on a library of one file with the dashboard running beside it
InitTui ==
    /\ Init
    /\ roots = <<"lib/sub">>
    /\ src[FileB] = MkFile("orig", "av1", 10)

NextTui == Next \/ RefreshJobs

SpecTui == InitTui /\ [][NextTui]_vars

\* the probe and the classifier applied to bounded sets of arguments
InitPure ==
    /\ Init
    /\ roots = <<"lib">>
    /\ src[FileB] = MkFile("orig", "h264", 10)

NextPure == CallProbeFile \/ CallClassifyWebSource \/ CallReturn

SpecPure == InitPure /\ [][NextPure]_vars

\* ------------------------------------------------------------------------
\* Properties
\* ------------------------------------------------------------------------
Range(f) == {f[k] : k \in DOMAIN f}

\* the daemon is inside a run (scan pass or drain)
InRun == pc \notin {"off", "done"}

\* what LoadAllJobs makes of the contents of one job file
LoadRec(data) == IF data # NoRec /\ WellFormed(data) THEN Unmarshal(data) ELSE NoJob

\* C1: once a Job's status is Success, no step of the scanner or of the
\* executor changes that Job's status again.
C1_SuccessIsFinal ==
    [][InRun =>
         \A i \in JobIds :
            (mem[i].status = Success /\ mem'[i] # NoJob) => mem'[i].status = Success]_vars

\* C2: if the daemon is killed during SaveJob for a Job that has a record on
\* disk, the record LoadAllJobs reads afterwards is the complete prior record
\* or the complete new record.
C2_SaveJobCrashSafe ==
    [][(InRun /\ pc' = "off" /\ wr.active /\ LoadRec(wr.old) # NoJob)
         => LoadRec(disk'[wr.id]) \in {Unmarshal(wr.old), Unmarshal(wr.data)}]_vars

\* C3: a refresh of the dashboard that runs during a SaveJob for a Job that
\* had a record returns that Job with its complete prior contents or its
\* complete new contents.
C3_RefreshSeesWholeRecord ==
    [][(tuiJobs' # tuiJobs /\ wr.active /\ LoadRec(wr.old) # NoJob)
         => \E k \in 1..Len(tuiJobs') :
               tuiJobs'[k] \in {Unmarshal(wr.old), Unmarshal(wr.data)}]_vars

\* C4: the job store holds at most one record for each distinct source path.
C4_OneJobPerPath ==
    \A p \in Paths :
        Cardinality({i \in JobIds : LoadRec(disk[i]) # NoJob
                                    /\ LoadRec(disk[i]).path = p}) <= 1

\* C5: the content at a source path is the original file or a complete output
\* of an encoder run that exited with code 0, and the only write the daemon
\* makes to a source path is the rename of such an output, after it passed the
\* size gate of the current Job.
C5_SourceIntact ==
    /\ [](\A p \in Paths : src[p].data \in {"orig", "enc"})
    /\ [][InRun =>
            \A p \in Paths :
               src'[p] # src[p] =>
                  /\ pc = "replace"
                  /\ Cur.path = p
                  /\ tmp[TrimExt(p)].exists
                  /\ tmp[TrimExt(p)].data = "enc"
                  /\ tmp[TrimExt(p)].size * RatioDen <= Cur.orig * RatioNum
                  /\ src'[p] = tmp[TrimExt(p)]
                  /\ ~tmp'[TrimExt(p)].exists]_vars

\* C5 witness: ProcessJob has renamed a complete output over a source path
C5_Witness ==
    \E p \in Paths : pc = "verify" /\ Cur.path = p /\ src[p].data = "enc"

\* C6: when ProcessJob sets a Job to Success, the file at the source path has
\* the Job's NewSize, which is at most max_size_ratio times its OriginalSize;
\* a size-gate rejection leaves the source file as it was and the Job Skipped.
C6_SizeBound ==
    /\ []((pc = "ret" /\ di <= Len(pendingJobs) /\ Cur.status = Success) =>
            /\ src[Cur.path].size = Cur.new
            /\ src[Cur.path].size * RatioDen <= Cur.orig * RatioNum)
    /\ [][(pc = "stat" /\ pc' \in {"ret", "replace"}) =>
            IF tmp[CurBase].size * RatioDen > Cur.orig * RatioNum
            THEN /\ src' = src
                 /\ mem'[Cur.id].status = Skipped
                 /\ pc' = "ret"
            ELSE pc' = "replace"]_vars

\* C6 witness: a Job was just set to Success with an output exactly at the bound
C6_Witness ==
    /\ pc = "ret"
    /\ di <= Len(pendingJobs)
    /\ Cur.status = Success
    /\ Cur.new * RatioDen = Cur.orig * RatioNum

\* C7: a Job that the daemon loaded as Running (the previous run was stopped
\* during the encode) and whose file the scan pass admitted again is handed to
\* the executor in that run. A Job that is Running when main returns and was
\* not handed to ProcessJob in this run was loaded as Running.
C7_RunningRetried ==
    pc = "done" =>
        \A i \in Range(newJobs) : mem[i].status = Running => i \in Range(handed)

\* C8: while <base>.av1qsvd-skip exists, the encoder is not started for that
\* source file, and the scanner resets no Job of that file to Pending.
C8_SkipMarkerHolds ==
    [][/\ (pc = "args" /\ pc' \in {"run", "runx"}) => ~skip[CurBase]
       /\ \A i \in JobIds :
            (pc = "scan" /\ pc' = "scan" /\ mem[i] # NoJob /\ skip[TrimExt(mem[i].path)]
               /\ mem[i].status # Pending) => mem'[i].status # Pending]_vars

\* C9: when a drain iteration ends with the Job Failed or Skipped, the why
\* sidecar of the Job's file holds the Job's Reason.
C9_WhyMatchesReason ==
    [][(pc \notin {"off", "done", "scan"} /\ pc' = "drain" /\ di' = di + 1
          /\ mem'[Cur.id].status \in {Failed, Skipped})
         => why'[CurBase] = mem'[Cur.id].reason]_vars

\* FinishedAt is set iff the status is terminal
FinishedIffTerminal(job) == job.finished <=> job.status \in Terminal

\* C10: for every Job in memory and every persisted record, FinishedAt is set
\* iff Status is Success, Failed or Skipped.
C10_FinishedIffTerminal ==
    \A i \in JobIds :
        /\ mem[i] # NoJob => FinishedIffTerminal(mem[i])
        /\ LoadRec(disk[i]) # NoJob => FinishedIffTerminal(LoadRec(disk[i]))

\* the scanner's deterministic rejection tests hold for the file at p
ScannerRejects(p) ==
    /\ ExtLower(p) \in MediaExts
    /\ \/ SkipMarker(p)
       \/ BelowFloor(src[p].size)
       \/ ~ProbeFile(src[p]).hasVideo
       \/ AlreadyAV1(ProbeFile(src[p]))

\* the ids of the records of the store d for the path p
RecordsOf(d, p) == {i \in JobIds : LoadRec(d[i]) # NoJob /\ LoadRec(d[i]).path = p}

\* C11: after the scanner rejects a file (the callback ran without a walk or
\* probe error), the store holds exactly one Job for its path, Skipped with the
\* rejection reason, unless a Success record exists.
C11_RejectedFileHasSkippedJob ==
    [][(pc = "scan" /\ wi <= Len(Walk) /\ wi' = wi + 1 /\ faults' = faults
          /\ ScannerRejects(Walk[wi])) =>
         LET p == Walk[wi]
             recs == RecordsOf(disk', p)
         IN \/ \E i \in recs : LoadRec(disk'[i]).status = Success
            \/ /\ Cardinality(recs) = 1
               /\ \A i \in recs : /\ LoadRec(disk'[i]).status = Skipped
                                  /\ LoadRec(disk'[i]).reason = why'[TrimExt(p)]]_vars

\* C12: for a stream list with a video stream, the scanner's already-AV1 test
\* rejects iff the codec of the main video stream is av1.
C12_AlreadyAV1IffMainIsAV1 ==
    (call.op = "ProbeFile" /\ call.out.hasVideo) =>
        (AlreadyAV1(call.out) <=> call.out.main.codec = "av1")

\* C13: a scan pass that follows a scan pass with no executor work, no change
\* of the library and no failure in between leaves the store as the first
\* pass left it.
C13_ScanIdempotent ==
    [][(pc = "scan" /\ pc' \in {"drain", "done"} /\ hist.valid /\ faults = hist.f0)
         => disk' = hist.store]_vars

\* C13 witness: a second pass has ended over a store that holds a Job it admitted again
C13_Witness ==
    /\ hist.n = 2
    /\ pc = "drain"
    /\ newJobs # <<>>
    /\ \E i \in JobIds : LoadRec(disk[i]) # NoJob

\* C14: whatever the outcome for one file or Job, the pass visits every file of
\* the walk, the drain loop takes every pending Job in turn and skips
\* ProcessJob only for a Job whose own probe failed, and a step changes no
\* record but that of the Job it handles (~wr.active: a step of main, not the
\* completion of a write).
C14_ErrorsStayLocal ==
    [][/\ (pc = "scan" /\ pc' = "scan" /\ ~wr.active) => wi' = wi + 1
       /\ (pc = "scan" /\ pc' \in {"drain", "done"}) => wi > Len(Walk)
       /\ (pc \notin {"off", "done", "scan"} /\ pc' = "drain" /\ ~wr.active) => di' = di + 1
       /\ (pc \notin {"off", "done", "scan"} /\ pc' = "done") => di > Len(pendingJobs)
       /\ (pc = "drain" /\ pc' = "drain" /\ ~wr.active) =>
              (mem'[Cur.id].status = Failed /\ faults' > faults)
       /\ (InRun /\ pc' # "off") =>
              \A i \in JobIds :
                 disk'[i] # disk[i] =>
                    \/ wr.active /\ i = wr.id
                    \/ pc = "scan" /\ mem'[i].path = Walk[wi]
                    \/ pc # "scan" /\ di <= Len(pendingJobs) /\ i = Cur.id]_vars

\* C14 witness: the first pending Job failed and the second one is in ProcessJob
C14_Witness ==
    /\ pc = "process"
    /\ di = 2
    /\ pendingJobs[1] # pendingJobs[2]
    /\ mem[pendingJobs[1]].status = Failed

\* C15: a run whose configuration could not be loaded ends without a scan
\* pass and without handing a Job to the executor, and touches no file.
C15_ConfigErrorExits ==
    /\ [](cfg.loadErr =>
            /\ pc = "done"
            /\ wi = 1
            /\ newJobs = <<>>
            /\ pendingJobs = <<>>
            /\ handed = <<>>
            /\ enc = {})
    /\ [][(cfg'.loadErr /\ runs' # runs) =>
            (pc' = "done" /\ UNCHANGED <<src, tmp, why, skip, disk>>)]_vars

\* C15 witness: a run with a configuration error has ended although the
\* configuration file names roots and the library holds an admissible file
C15_Witness ==
    /\ cfg.loadErr
    /\ pc = "done"
    /\ roots # <<>>
    /\ ~ScannerRejects(FileA)

\* C16: when the drain of a pass is finished, the same process goes on to the
\* next scan pass.
C16_ScanPassRecurs ==
    [][(pc = "drain" /\ di > Len(pendingJobs) /\ pc' # "off") => pc' = "scan"]_vars

\* C17: at most one encoder subprocess runs; it is the encoder of the Job
\* ProcessJob is working on, and none runs when an encoder is started.
C17_OneEncoder ==
    /\ [](/\ Cardinality(enc) <= 1
          /\ enc # {} => (pc \in {"run", "runx"} /\ enc = {Cur.id}))
    /\ [][(pc = "args" /\ pc' \in {"run", "runx"}) => enc = {}]_vars

\* C17 witness: the encoder of the second Job of a drain is running
C17_Witness ==
    /\ pc = "run"
    /\ di = 2
    /\ pendingJobs[1] # pendingJobs[2]
    /\ enc = {Cur.id}

\* the class the thresholds give to twice a score
ClassOfScore2(score2) ==
    IF score2 >= 4 THEN "WebLike" ELSE IF score2 <= -4 THEN "DiscLike" ELSE "Unknown"

\* C18: WebLike with score +10 when <basename>.websafe exists, else DiscLike
\* with score -10 when <basename>.nowebsafe exists, else the class the
\* thresholds give to the accumulated score.
C18_OverridesAndThresholds ==
    call.op = "ClassifyWebSource" =>
        IF Exists(call.fs, Sidecar(call.path, ".websafe"))
        THEN call.out.class = "WebLike" /\ call.out.score2 = 20
        ELSE IF Exists(call.fs, Sidecar(call.path, ".nowebsafe"))
        THEN call.out.class = "DiscLike" /\ call.out.score2 = -20
        ELSE /\ call.out.score2 = SumScore2(Signals(call.path, call.format, call.streams))
             /\ call.out.class = ClassOfScore2(call.out.score2)

\* C19: the result of ClassifyWebSource depends on its arguments only: a call
\* with the same arguments in any other state of the file system returns the
\* same class, score and reasons.
C19_ClassifierIsPure ==
    call.op = "ClassifyWebSource" =>
        \A fs2 \in SidecarSets(call.path) :
            ClassifyWebSource(call.path, call.format, call.streams, fs2) = call.out

\* C20: a Job is Pending at the moment the drain loop hands it to ProcessJob.
C20_HandedJobIsPending ==
    [][(pc = "drain" /\ pc' = "process") => Cur.status = Pending]_vars

\* the daemon is inside a call of daemon.ProcessJob
InProcessJob ==
    pc \in {"process", "args", "run", "runx", "encfail", "stat", "replace",
            "verify", "ret", "ret_rm"}

\* C21: when ProcessJob returns (to the drain loop, the process was not
\* killed), the status of its Job is Success, Failed or Skipped.
C21_ReturnsTerminal ==
    [][(InProcessJob /\ pc' = "drain") => mem'[Cur.id].status \in Terminal]_vars

\* C22: when ProcessJob returns in a behaviour without any failure of the
\* environment (every store write succeeded), the record in the store has the
\* status and the reason of the Job in memory.
C22_StoreMatchesMemory ==
    [][(InProcessJob /\ pc' = "drain" /\ faults' = 0) =>
         /\ LoadRec(disk'[Cur.id]).status = mem'[Cur.id].status
         /\ LoadRec(disk'[Cur.id]).reason = mem'[Cur.id].reason]_vars

\* C23: when the two size samples of the stability gate differ, the next step
\* of ProcessJob returns with the Job Skipped, reason 'file still copying' and
\* the why sidecar written; the record in the store is not written (the Job is
\* never Running), no temporary output appears and no encoder is started.
C23_UnstableIsSkipped ==
    [][(pc = "process" /\ stab.taken /\ stab.size0 # stab.size1 /\ stab' # stab
          /\ pc' # "off") =>
         /\ pc' = "drain"
         /\ mem'[Cur.id].status = Skipped
         /\ mem'[Cur.id].reason = "file still copying"
         /\ why'[CurBase] = "file still copying"
         /\ UNCHANGED <<src, tmp, skip, disk, wr, enc>>
         /\ enc = {}]_vars

\* C23 witness: ProcessJob has returned for the first pending Job, Skipped as
\* still copying, and the drain loop is at the second one
C23_Witness ==
    /\ pc = "drain"
    /\ di = 2
    /\ mem[pendingJobs[1]].status = Skipped
    /\ mem[pendingJobs[1]].reason = "file still copying"
    /\ why[TrimExt(mem[pendingJobs[1]].path)] = "file still copying"
    /\ ~tmp[TrimExt(mem[pendingJobs[1]].path)].exists
    /\ LoadRec(disk[pendingJobs[1]]).status = Pending

\* C25: of the Jobs handed to ProcessJob in a run, those that were in the store
\* before the scan pass come before those the pass created: no Job of the
\* store is handed after a new one.
C25_StoredBeforeNew ==
    \A i \in 1..Len(handed), j \in 1..Len(handed) :
        (i < j /\ handed[j] \in Range(existingJobs)) => handed[i] \in Range(existingJobs)

\* the first position of x in the sequence seq (0 when x is not in it)
Pos(seq, x) ==
    IF \E k \in 1..Len(seq) : seq[k] = x
    THEN CHOOSE k \in 1..Len(seq) : seq[k] = x /\ \A m \in 1..(k - 1) : seq[m] # x
    ELSE 0

\* the web-safe flags of the encoder command line: input side, output side
WebInputFlags == {"-fflags", "+genpts", "-copyts", "-start_at_zero"}
WebOutputFlags == {"-vsync", "-avoid_negative_ts", "make_zero"}

\* the positions of the arguments a before / after the input file
BeforeInput(a) == {k \in 1..Len(a) : k < Pos(a, "-i")}
AfterInput(a) == {k \in 1..Len(a) : k > Pos(a, "-i")}

\* C26: while the encoder of a Job runs, its argument list has all web-safe
\* input flags before -i and all web-safe output flags after it when the class
\* of the file as probed for this execution is WebLike or Unknown, and none of
\* these flags when the class is DiscLike.
C26_WebFlagsIffWebLike ==
    (pc \in {"run", "runx"}) =>
        LET class == SourceDecision(Cur.path, src[Cur.path]).class IN
        IF class \in {"WebLike", "Unknown"}
        THEN /\ WebInputFlags \subseteq {args[k] : k \in BeforeInput(args)}
             /\ WebOutputFlags \subseteq {args[k] : k \in AfterInput(args)}
        ELSE (WebInputFlags \cup WebOutputFlags) \cap Range(args) = {}

\* C26 witness: the encoder runs with the web-safe flags on a file of class Unknown
C26_Witness ==
    /\ pc = "run"
    /\ SourceDecision(Cur.path, src[Cur.path]).class = "Unknown"
    /\ "-vsync" \in Range(args)

\* ------------------------------------------------------------------- C24
\* the outcome the ordered tests give for the file p when the probe succeeds:
\* "ignore", "admit", or the reason of the rejection. The skip marker of p is
\* the sibling <basename>.av1qsvd-skip, the prior Success is a loaded job for
\* the path with status Success.
C24_Ordered(p) ==
    IF ToLower(Ext(p)) \notin {".mkv", ".mp4", ".m4v"} THEN "ignore"
    ELSE IF skip[TrimExt(p)] THEN "marked with .av1qsvd-skip"
    ELSE IF \E k \in 1..Len(existingJobs) :
              /\ mem[existingJobs[k]].path = p
              /\ mem[existingJobs[k]].status = Success THEN "ignore"
    ELSE IF src[p].size <= MinBytes THEN "file < 2GB"
    ELSE IF src[p].kind \notin {"h264", "av1"} THEN "not a video"
    ELSE IF src[p].kind = "av1" THEN "already av1"
    ELSE "admit"

\* C24: every step of the scanner on a visited file, the probe and the store
\* working, has the outcome of the first matching test in the order extension
\* filter, skip marker, prior Success, size <= min_bytes, no video, already
\* AV1, otherwise admit: an ignored file changes nothing, a rejected file gets
\* the why sidecar of the test and no job, an admitted file gets a job.
C24_FirstMatchDecides ==
    [][(pc = "scan" /\ ~wr.active /\ wi <= Len(Walk) /\ wi' = wi + 1
        /\ faults' = faults)
       => LET p == Walk[wi]
              c == C24_Ordered(p)
          IN IF c = "ignore"
             THEN why' = why /\ newJobs' = newJobs /\ disk' = disk
             ELSE IF c = "admit"
             THEN newJobs' # newJobs
             ELSE /\ why' = [why EXCEPT ![TrimExt(p)] = c]
                  /\ newJobs' = newJobs /\ disk' = disk]_vars

\* ------------------------------------------------------------------- C27
\* the job in hand was loaded from the store and the scan pass of this run
\* admitted no job for its file
C27_LoadedNotAdmitted ==
    /\ Cur.id \in Range(existingJobs)
    /\ \A k \in 1..Len(newJobs) : mem[newJobs[k]].path # Cur.path

\* C27: with no failure of the environment and no kill so far, no encoder is
\* started for a job that was loaded from the store as Pending and whose file
\* the scan pass of the run did not admit and the scanner's tests reject.
C27_RejectedNotEncoded ==
    [][(pc = "args" /\ pc' \in {"run", "runx"} /\ faults' = 0)
       => ~(C27_LoadedNotAdmitted /\ ScannerRejects(Cur.path))]_vars

\* ------------------------------------------------------------------- C28
\* the identifiers whose record in the store loads with status Running
C28_RunningRecords ==
    {i \in JobIds : LoadRec(disk[i]) # NoJob /\ LoadRec(disk[i]).status = Running}

\* C28: in every state, kills and restarts included, at most one record of
\* the job store has status Running.
C28_AtMostOneRunning == Cardinality(C28_RunningRecords) <= 1

\* ------------------------------------------------------------------- C29
\* C29: whenever ProcessJob returns to the drain loop, no file exists at the
\* temporary output path <basename>.av1-tmp.mkv of the job it was given.
C29_NoTmpAfterReturn ==
    [][(InProcessJob /\ pc' = "drain") => ~tmp'[CurBase].exists]_vars

\* ------------------------------------------------------------------- C30
\* the store holds a record of a size-gate rejection of the file p
C30_SizeGated(p) ==
    \E i \in JobIds :
        /\ LoadRec(disk[i]) # NoJob
        /\ LoadRec(disk[i]).path = p
        /\ LoadRec(disk[i]).status = Skipped
        /\ LoadRec(disk[i]).reason = "size gate"

\* C30: with no failure of the environment and no kill so far, the scanner
\* rejects a media file at the skip-marker test only if that file itself was
\* rejected by the size gate: the marker written for another file never
\* decides.
C30_OwnMarkerOnly ==
    [][(pc = "scan" /\ ~wr.active /\ wi <= Len(Walk) /\ wi' = wi + 1
        /\ faults' = 0
        /\ ExtLower(Walk[wi]) \in MediaExts /\ SkipMarker(Walk[wi]))
       => C30_SizeGated(Walk[wi])]_vars

====
